---- MODULE Spec2Model ----
(***************************************************************************)
(* State-machine model of the Ashburn Sniper Bot: the market mapper        *)
(* (mapping.py), the odds feed (gather_data.py) and the sniper loop        *)
(* with its order tasks (main.py).  Money is kept in cents and             *)
(* probabilities as exact fractions [num, den].                            *)
(***************************************************************************)
EXTENDS Integers, Sequences, FiniteSets, TLC

VARIABLES
    entries,        \* MarketMapper._entries
    team_index,     \* MarketMapper._team_index
    lock,           \* MarketMapper._lock: its holder (0 when free) and waiters
    loadpc,         \* position of each preload call
    fetches,        \* number of catalog fetches issued (session.get in preload)
    lookups,        \* results of match_team/find_market calls made beside loads
    queue,          \* asyncio.Queue shared by odds_ws_feed and process_odds_feed
    fed,            \* number of websocket messages the odds feed has received
    enqueued,       \* ids of the messages the feed has put on the queue, in order
    dequeued,       \* ids of the events the sniper loop has taken, in order
    acked,          \* number of queue.task_done() calls
    pc,             \* position of process_odds_feed
    event,          \* the local payload: the last item queue.get() returned
    cur,            \* the event the sniper loop is working on
    todo,           \* matched outcomes of cur still to be analysed
    k_price_cents,  \* the local of that name: the last result of get_kalshi_ask
    orders,         \* execute_snipe tasks created so far, with their status
    bankroll,       \* BotState.bankroll, in cents
    opportunities,  \* BotState.opportunities
    logs,           \* BotState.logs
    now,            \* the wall clock read by time.time()
    math,           \* arguments and results of the calls of the math helpers
    tasks,          \* the four tasks main creates, with their status
    mainpc          \* position of main

vars == <<entries, team_index, lock, loadpc, fetches, lookups, queue, fed,
          enqueued, dequeued, acked, pc, event, cur, todo, k_price_cents,
          orders, bankroll, opportunities, logs, now, math, tasks, mainpc>>

mapperVars == <<entries, team_index, lock, loadpc, fetches, lookups>>
pipeVars == <<queue, fed, enqueued, dequeued, acked, pc, event, cur, todo,
              k_price_cents, orders, bankroll, opportunities, logs, now>>
mathVars == <<math>>
mainVars == <<tasks, mainpc>>

----------------------------------------------------------------------------
(* Bounds of the model *)

\* websocket messages the odds feed receives
MaxEvents == 2
\* clock ticks
MaxTime == 1
\* price lookups that come back with an edge: beyond it the exchange only
\* returns prices that do not clear the threshold
MaxOrders == 2
\* preload calls made on one MarketMapper
MaxLoadCalls == 2
\* match_team/find_market calls recorded beside the loads
MaxLookups == 1
\* the window of recent Signals the ledger is held to, scaled down so that
\* MaxOrders fires overrun it
SignalWindow == 1
\* the largest price, in cents and in either sign, the exchange is taken
\* to return when the gate is checked on its own
MaxPrice == 205

----------------------------------------------------------------------------
(* config.py, in cents and hundredths *)

BANKROLL == 2600
MAX_RISK_PER_TRADE == 200
MIN_EDGE == 2
LOG_KEEP == 10

TARGET_BOOKS == {"draftkings", "fanduel", "pinnacle"}
SHARP_BOOKS == {"draftkings", "fanduel", "pinnacle"}

----------------------------------------------------------------------------
(* Names, titles and the catalog *)

KC == <<"Kansas City Chiefs">>
LVR == <<"Las Vegas Raiders">>
ZZ == <<"Zzyzx Nonexistent Team">>
NoName == <<>>
Names == {KC, LVR, ZZ}

\* A title is a sequence of tokens: words, blanks and the separators.
TitleKC == <<"Kansas City Chiefs", " ", "vs", " ", "Las Vegas Raiders">>
TitleLVR == <<"Las Vegas Raiders", " ", "@", " ", "Kansas City Chiefs">>
TitleNone == <<" ", "vs", " ">>

Catalogs ==
    { <<>>,
      << [ticker |-> "CHIEFS-WIN", title |-> TitleKC] >>,
      << [ticker |-> "NO-TEAMS", title |-> TitleNone],
         [ticker |-> "RAIDERS-WIN", title |-> TitleLVR] >> }

----------------------------------------------------------------------------
(* mapping.py *)

\* title.replace("@", "vs")
ReplaceAt(title) ==
    [i \in 1..Len(title) |-> IF title[i] = "@" THEN "vs" ELSE title[i]]

\* str.split("vs"): the parts between the separators, empty parts included
RECURSIVE SplitVs(_, _)
SplitVs(title, part) ==
    IF title = <<>> THEN <<part>>
    ELSE IF Head(title) = "vs" THEN <<part>> \o SplitVs(Tail(title), <<>>)
    ELSE SplitVs(Tail(title), Append(part, Head(title)))

\* str.strip()
RECURSIVE Strip(_)
Strip(part) ==
    IF part = <<>> THEN part
    ELSE IF Head(part) = " " THEN Strip(Tail(part))
    ELSE IF part[Len(part)] = " " THEN Strip(SubSeq(part, 1, Len(part) - 1))
    ELSE part

RECURSIVE NonEmpty(_)
NonEmpty(parts) ==
    IF parts = <<>> THEN <<>>
    ELSE IF Head(parts) = <<>> THEN NonEmpty(Tail(parts))
    ELSE <<Head(parts)>> \o NonEmpty(Tail(parts))

_extract_teams(title) ==
    LET parts == SplitVs(ReplaceAt(title), <<>>)
    IN  NonEmpty([i \in 1..Len(parts) |-> Strip(parts[i])])

\* the loop of preload over payload["markets"]
BuildEntries(catalog) ==
    [i \in 1..Len(catalog) |->
        [ticker |-> catalog[i].ticker,
         title |-> catalog[i].title,
         teams |-> _extract_teams(catalog[i].title)]]

\* [team for entry in entries for team in entry.teams]
RECURSIVE BuildIndex(_)
BuildIndex(es) ==
    IF es = <<>> THEN <<>> ELSE Head(es).teams \o BuildIndex(Tail(es))

\* fuzz.WRatio on the names of the model, rounded to an integer
WRatio(a, b) ==
    IF a = <<>> \/ b = <<>> THEN 0
    ELSE IF a = b THEN 100
    ELSE IF {a, b} = {KC, LVR} THEN 46
    ELSE IF {a, b} = {ZZ, KC} THEN 25
    ELSE IF {a, b} = {ZZ, LVR} THEN 26
    ELSE 0

\* process.extractOne: the first choice with the highest score
RECURSIVE BestFrom(_, _, _)
BestFrom(name, choices, best) ==
    IF choices = <<>> THEN best
    ELSE IF WRatio(name, Head(choices)) > WRatio(name, best)
            \/ best = <<>>
         THEN BestFrom(name, Tail(choices), Head(choices))
         ELSE BestFrom(name, Tail(choices), best)

\* NoName stands for None
match_team(name, index) ==
    IF index = <<>> THEN NoName ELSE BestFrom(name, index, <<>>)

InTeams(name, teams) == \E i \in 1..Len(teams) : teams[i] = name

NoEntry == [ticker |-> "", title |-> <<>>, teams |-> <<>>]

RECURSIVE FirstOwner(_, _)
FirstOwner(match, es) ==
    IF es = <<>> THEN NoEntry
    ELSE IF InTeams(match, Head(es).teams) THEN Head(es)
    ELSE FirstOwner(match, Tail(es))

\* NoEntry stands for None
find_market(team_name, es, index) ==
    LET match == match_team(team_name, index)
    IN  IF match = NoName THEN NoEntry ELSE FirstOwner(match, es)

----------------------------------------------------------------------------
(* MarketMapper.preload as a task: the lock, the fetch, the swap *)

LoadCalls == 1..MaxLoadCalls

\* asyncio.Lock.release: the lock stays with the first waiter, if any
Release ==
    IF lock.waiters = <<>>
    THEN [holder |-> 0, waiters |-> <<>>]
    ELSE [holder |-> Head(lock.waiters), waiters |-> Tail(lock.waiters)]

\* the body under the lock up to its first await: the early return when
\* _entries is truthy, else the catalog request
LockBody(t) ==
    IF entries # <<>>
    THEN /\ loadpc' = [loadpc EXCEPT ![t] = "done"]
         /\ lock' = Release
         /\ fetches' = fetches
    ELSE /\ loadpc' = [loadpc EXCEPT ![t] = "fetching"]
         /\ lock' = [lock EXCEPT !.holder = t]
         /\ fetches' = fetches + 1

\* a call of preload reaches the lock: it enters, or waits in line
CallPreload(t) ==
    /\ loadpc[t] = "idle"
    /\ IF lock.holder = 0
       THEN LockBody(t)
       ELSE /\ loadpc' = [loadpc EXCEPT ![t] = "waitlock"]
            /\ lock' = [lock EXCEPT !.waiters = Append(@, t)]
            /\ fetches' = fetches
    /\ UNCHANGED <<entries, team_index, lookups>>
    /\ UNCHANGED pipeVars
    /\ UNCHANGED <<mathVars, mainVars>>

\* a waiting call is handed the lock
AcquireLock(t) ==
    /\ loadpc[t] = "waitlock"
    /\ lock.holder = t
    /\ LockBody(t)
    /\ UNCHANGED <<entries, team_index, lookups>>
    /\ UNCHANGED pipeVars
    /\ UNCHANGED <<mathVars, mainVars>>

\* a load that stores the name list and yields before it stores the entries
FetchOkIndexOnly(t, catalog) ==
    /\ loadpc[t] = "fetching"
    /\ team_index' = BuildIndex(BuildEntries(catalog))
    /\ UNCHANGED <<entries, lock, loadpc, fetches, lookups>>
    /\ UNCHANGED pipeVars
    /\ UNCHANGED <<mathVars, mainVars>>

\* the response arrives: build the entries, then swap both lists in
FetchOk(t, catalog) ==
    /\ loadpc[t] = "fetching"
    /\ entries' = BuildEntries(catalog)
    /\ team_index' = BuildIndex(BuildEntries(catalog))
    /\ lock' = Release
    /\ loadpc' = [loadpc EXCEPT ![t] = "done"]
    /\ UNCHANGED <<fetches, lookups>>
    /\ UNCHANGED pipeVars
    /\ UNCHANGED <<mathVars, mainVars>>

\* session.get or raise_for_status raises: the lock is released, nothing stored
FetchFail(t) ==
    /\ loadpc[t] = "fetching"
    /\ lock' = Release
    /\ loadpc' = [loadpc EXCEPT ![t] = "failed"]
    /\ UNCHANGED <<entries, team_index, fetches, lookups>>
    /\ UNCHANGED pipeVars
    /\ UNCHANGED <<mathVars, mainVars>>

\* find_market called by another task between the steps of the loads
Lookup(name) ==
    /\ Len(lookups) < MaxLookups
    /\ lookups' = Append(lookups,
                    [name |-> name,
                     match |-> match_team(name, team_index),
                     ticker |-> find_market(name, entries, team_index).ticker])
    /\ UNCHANGED <<entries, team_index, lock, loadpc, fetches>>
    /\ UNCHANGED pipeVars
    /\ UNCHANGED <<mathVars, mainVars>>

----------------------------------------------------------------------------
(* Odds events: the payloads of the odds websocket *)

Missing == "<missing>"

Out(name, price) == [name |-> name, priced |-> TRUE, price |-> price]
H2H(outs) == [key |-> "h2h", hasOutcomes |-> TRUE, outcomes |-> outs]
Book(key, markets) == [key |-> key, markets |-> markets]
Payload(home, top, books) ==
    [home_team |-> home, bookmaker |-> top, bookmakers |-> books]

\* one sharp book: the home side at -150
EvFire ==
    Payload(KC, "pinnacle",
        <<Book("pinnacle", <<H2H(<<Out(KC, -150), Out(LVR, 130)>>)>>)>>)
\* two sharp books quote the home side
EvTwoBooks ==
    Payload(KC, "draftkings",
        <<Book("draftkings", <<H2H(<<Out(KC, -150), Out(LVR, 130)>>)>>),
          Book("fanduel", <<H2H(<<Out(LVR, 130), Out(KC, -150)>>)>>)>>)
\* a team no market is about, at +66
EvStranger ==
    Payload(ZZ, "pinnacle",
        <<Book("pinnacle", <<H2H(<<Out(ZZ, 66), Out(KC, -76)>>)>>)>>)
\* no home_team
EvNoHome ==
    Payload(NoName, "pinnacle",
        <<Book("pinnacle", <<H2H(<<Out(KC, -150), Out(LVR, 130)>>)>>)>>)
\* only a book outside TARGET_BOOKS
EvSoft ==
    Payload(KC, "pinnacle",
        <<Book("betmgm", <<H2H(<<Out(KC, -150), Out(LVR, 130)>>)>>)>>)
\* a message of a book outside SHARP_BOOKS
EvUnsharp ==
    Payload(KC, "betmgm",
        <<Book("pinnacle", <<H2H(<<Out(KC, -150), Out(LVR, 130)>>)>>)>>)
\* a bookmaker entry without "key"
EvNoKey ==
    Payload(KC, "pinnacle",
        <<Book(Missing, <<H2H(<<Out(KC, -150), Out(LVR, 130)>>)>>)>>)

Events == {EvFire, EvTwoBooks, EvStranger, EvNoHome, EvSoft, EvUnsharp,
           EvNoKey}

----------------------------------------------------------------------------
(* The loops of process_odds_feed over one payload, as the sequence of      *)
(* matched outcomes it analyses; a step of kind "raise" is a KeyError or    *)
(* TypeError, which ends the task.                                          *)

OddsStep(o) == [kind |-> "odds", odds |-> o]
RaiseStep == [kind |-> "raise", odds |-> 0]

Raises(steps) == steps # <<>> /\ steps[Len(steps)].kind = "raise"
Then(a, b) == IF Raises(a) THEN a ELSE a \o b

\* for outcome in market["outcomes"]: if outcome["name"] == home_team
RECURSIVE ScanOutcomes(_, _)
ScanOutcomes(outs, home) ==
    IF outs = <<>> THEN <<>>
    ELSE LET o == Head(outs)
         IN  IF o.name = NoName THEN <<RaiseStep>>
             ELSE IF o.name = home
                  THEN IF o.priced
                       THEN Then(<<OddsStep(o.price)>>,
                                 ScanOutcomes(Tail(outs), home))
                       ELSE <<RaiseStep>>
                  ELSE ScanOutcomes(Tail(outs), home)

\* for market in bookie.get("markets", []): if market["key"] != "h2h": continue
RECURSIVE ScanMarkets(_, _)
ScanMarkets(ms, home) ==
    IF ms = <<>> THEN <<>>
    ELSE LET m == Head(ms)
         IN  IF m.key = Missing THEN <<RaiseStep>>
             ELSE IF m.key # "h2h" THEN ScanMarkets(Tail(ms), home)
             ELSE IF ~m.hasOutcomes THEN <<RaiseStep>>
             ELSE Then(ScanOutcomes(m.outcomes, home),
                       ScanMarkets(Tail(ms), home))

\* the loop over the bookmakers without its filter
RECURSIVE ScanBooksAll(_, _)
ScanBooksAll(bs, home) ==
    IF bs = <<>> THEN <<>>
    ELSE LET b == Head(bs)
         IN  IF b.key = Missing THEN <<RaiseStep>>
             ELSE Then(ScanMarkets(b.markets, home),
                       ScanBooksAll(Tail(bs), home))

\* for bookie in bookmakers: if bookie["key"] not in TARGET_BOOKS: continue
RECURSIVE ScanBooks(_, _)
ScanBooks(bs, home) ==
    IF bs = <<>> THEN <<>>
    ELSE LET b == Head(bs)
         IN  IF b.key = Missing THEN <<RaiseStep>>
             ELSE IF b.key \notin TARGET_BOOKS THEN ScanBooks(Tail(bs), home)
             ELSE Then(ScanMarkets(b.markets, home), ScanBooks(Tail(bs), home))

----------------------------------------------------------------------------
(* The arithmetic of the sniper loop *)

\* implied_prob, as a fraction
implied_prob(american_odds) ==
    IF american_odds < 0
    THEN [num |-> -american_odds, den |-> -american_odds + 100]
    ELSE [num |-> 100, den |-> american_odds + 100]

\* edge = true_prob - k_price_cents / 100.0, as a fraction
Edge(true_prob, cents) ==
    [num |-> 100 * true_prob.num - cents * true_prob.den,
     den |-> 100 * true_prob.den]

\* the comparison without its equality
EdgeClearsStrict(edge) == 100 * edge.num > MIN_EDGE * edge.den

\* a gate that lets every edge through
EdgeClearsAlways(edge) == TRUE

\* edge >= MIN_EDGE, MIN_EDGE in hundredths
EdgeClears(edge) == 100 * edge.num >= MIN_EDGE * edge.den

\* the risk limit taken for cents where the price is in dollars
CountUnitsMixed(cents) == (MAX_RISK_PER_TRADE * 100) \div cents

\* int(MAX_RISK_PER_TRADE / price_dollars): the quotient cut towards zero
Count(cents) ==
    IF cents > 0
    THEN MAX_RISK_PER_TRADE \div cents
    ELSE -(MAX_RISK_PER_TRADE \div (-cents))

\* what get_kalshi_ask returns: None, or the first price of the yes side
None == [known |-> FALSE, cents |-> 0]
Ask(c) == [known |-> TRUE, cents |-> c]
\* k_price_cents before its first assignment
Unbound == [known |-> FALSE, cents |-> -1]
PriceValues == {-5, 0, 58, 59}
\* a lookup that falls back on the last price seen when the request fails
get_kalshi_ask_stale ==
    {[known |-> FALSE, cents |-> 58]} \cup {Ask(c) : c \in PriceValues}
get_kalshi_ask == {None} \cup {Ask(c) : c \in PriceValues}

\* the truth value Python gives the result: None and 0 are false
Truthy(q) == q # None /\ q.cents # 0

\* BotState.log
Log(l, message) ==
    LET all == Append(l, message)
    IN  IF Len(all) <= LOG_KEEP THEN all
        ELSE SubSeq(all, Len(all) - LOG_KEEP + 1, Len(all))

----------------------------------------------------------------------------
(* odds_ws_feed *)

\* one TEXT message: queued when its bookmaker is a sharp book, else dropped
FeedMessage(payload) ==
    /\ fed < MaxEvents
    /\ pc # "stopped"
    /\ fed' = fed + 1
    /\ IF payload.bookmaker \in SHARP_BOOKS
       THEN /\ queue' = Append(queue, [id |-> fed + 1, payload |-> payload])
            /\ enqueued' = Append(enqueued, fed + 1)
       ELSE UNCHANGED <<queue, enqueued>>
    /\ UNCHANGED <<dequeued, acked, pc, event, cur, todo, k_price_cents,
                   orders, bankroll, opportunities, logs, now>>
    /\ UNCHANGED mapperVars
    /\ UNCHANGED <<mathVars, mainVars>>

----------------------------------------------------------------------------
(* process_odds_feed *)

\* payload before the first queue.get() has returned
NoPayload == Payload(NoName, "", <<>>)

Idle == [id |-> 0, home_team |-> NoName, ticker |-> ""]

\* a queue that hands out its newest item
queue_get_last(q) == [item |-> q[Len(q)], rest |-> SubSeq(q, 1, Len(q) - 1)]

\* asyncio.Queue.get on a non-empty queue: the oldest item
queue_get(q) == [item |-> Head(q), rest |-> Tail(q)]

\* execute_snipe awaited in line: the loop waits while an order is in flight
AwaitingInline(os) == \E i \in 1..Len(os) : os[i].status = "inflight"

\* asyncio.create_task(execute_snipe(...)): the loop awaits none of the
\* order tasks it has created
Awaiting(os) == FALSE

\* a loop whose way back to queue.get leaves out queue.task_done()
SettleNoAck(c, steps) ==
    IF steps = <<>>
    THEN /\ pc' = "get"
         /\ cur' = Idle
         /\ todo' = <<>>
         /\ acked' = acked
    ELSE IF Head(steps).kind = "raise"
    THEN /\ pc' = "crashed"
         /\ cur' = c
         /\ todo' = <<>>
         /\ acked' = acked
    ELSE /\ pc' = "ask"
         /\ cur' = c
         /\ todo' = steps
         /\ acked' = acked

\* where the loop stands after a step: the next matched outcome (awaiting
\* its price), the exception that ends the task, or task_done and the
\* next queue.get
Settle(c, steps) ==
    IF steps = <<>>
    THEN /\ pc' = "get"
         /\ cur' = Idle
         /\ todo' = <<>>
         /\ acked' = acked + 1
    ELSE IF Head(steps).kind = "raise"
    THEN /\ pc' = "crashed"
         /\ cur' = c
         /\ todo' = <<>>
         /\ acked' = acked
    ELSE /\ pc' = "ask"
         /\ cur' = c
         /\ todo' = steps
         /\ acked' = acked

\* queue.get returns: parse, map to a ticker, walk to the first matched outcome
Dequeue ==
    /\ pc = "get"
    /\ queue # <<>>
    /\ ~Awaiting(orders)
    /\ LET got == queue_get(queue)
           payload == got.item.payload
           market_entry == find_market(payload.home_team, entries, team_index)
       IN  /\ queue' = got.rest
           /\ event' = payload
           /\ dequeued' = Append(dequeued, got.item.id)
           /\ IF payload.home_team = NoName \/ market_entry = NoEntry
              THEN Settle(Idle, <<>>)
              ELSE Settle([id |-> got.item.id,
                           home_team |-> payload.home_team,
                           ticker |-> market_entry.ticker],
                          ScanBooks(payload.bookmakers, payload.home_team))
    /\ UNCHANGED <<fed, enqueued, k_price_cents, orders, bankroll,
                   opportunities, logs, now>>
    /\ UNCHANGED mapperVars
    /\ UNCHANGED <<mathVars, mainVars>>

\* the fire decision on one matched outcome
Fires(sb_odds, q) ==
    /\ Truthy(q)
    /\ EdgeClears(Edge(implied_prob(sb_odds), q.cents))
    /\ Count(q.cents) > 0

\* the task created for execute_snipe; ev, known, time and pre record the
\* event, the lookup, the clock and the bankroll the fire was decided on
NewOrder(ticker, q) ==
    [ev |-> cur.id, ticker |-> ticker, side |-> "yes",
     count |-> Count(q.cents), price |-> q.cents, known |-> q.known,
     time |-> now, pre |-> bankroll, status |-> "inflight"]

\* the entry appended to state.opportunities
Signal(ticker, sb_odds, q) ==
    [market |-> ticker, edge |-> Edge(implied_prob(sb_odds), q.cents),
     hedge |-> 0]

\* a debit of the stake at fire time that nothing gives back
LedgerAfterFireDebit(b, order) == b - order.count * order.price

\* state.bankroll after a fire: the loop does not write it
LedgerAfterFire(b, order) == b

\* get_kalshi_ask returns q for the matched outcome at the head of todo
AskResult(q) ==
    /\ pc = "ask"
    /\ ~Awaiting(orders)
    /\ Fires(Head(todo).odds, q) => Len(orders) < MaxOrders
    /\ k_price_cents' = q
    /\ LET sb_odds == Head(todo).odds
       IN  IF Fires(sb_odds, q)
           THEN /\ logs' = Log(logs, "SIGNAL")
                /\ orders' = Append(orders, NewOrder(cur.ticker, q))
                /\ opportunities' =
                     Append(opportunities, Signal(cur.ticker, sb_odds, q))
                /\ bankroll' = LedgerAfterFire(bankroll, NewOrder(cur.ticker, q))
           ELSE UNCHANGED <<logs, orders, opportunities, bankroll>>
    /\ Settle(cur, Tail(todo))
    /\ UNCHANGED <<queue, fed, enqueued, dequeued, event, now>>
    /\ UNCHANGED mapperVars
    /\ UNCHANGED <<mathVars, mainVars>>

----------------------------------------------------------------------------
(* execute_snipe *)

Outcomes == {"success", "fail", "neterr"}
Failures == {"fail", "neterr"}

LogLine(outcome) ==
    IF outcome = "success" THEN "FIRE SUCCESS"
    ELSE IF outcome = "fail" THEN "FIRE FAIL"
    ELSE "NET ERROR"

\* an exception of the POST that leaves the task and ends the loop
AfterOrderRaises(outcome, p) == IF outcome = "neterr" THEN "crashed" ELSE p

\* what the end of an order task does to the sniper loop: nothing, the
\* task catches the exception and returns False
AfterOrder(outcome, p) == p

\* state.bankroll after an order result: execute_snipe does not write it
LedgerAfterResult(b, order, outcome) == b

\* the POST of order i ends: 200/201, another status, or an exception
OrderResult(i, outcome) ==
    /\ pc # "stopped"
    /\ orders[i].status = "inflight"
    /\ orders' = [orders EXCEPT ![i].status = outcome]
    /\ logs' = Log(logs, LogLine(outcome))
    /\ pc' = AfterOrder(outcome, pc)
    /\ bankroll' = LedgerAfterResult(bankroll, orders[i], outcome)
    /\ UNCHANGED <<queue, fed, enqueued, dequeued, acked, event, cur, todo,
                   k_price_cents, opportunities, now>>
    /\ UNCHANGED mapperVars
    /\ UNCHANGED <<mathVars, mainVars>>

----------------------------------------------------------------------------
(* main and the clock *)

\* the sniper loop has raised: gather re-raises, every task is cancelled
Shutdown ==
    /\ pc = "crashed"
    /\ pc' = "stopped"
    /\ orders' = [i \in 1..Len(orders) |->
                    IF orders[i].status = "inflight"
                    THEN [orders[i] EXCEPT !.status = "cancelled"]
                    ELSE orders[i]]
    /\ UNCHANGED <<queue, fed, enqueued, dequeued, acked, event, cur, todo,
                   k_price_cents, bankroll, opportunities, logs, now>>
    /\ UNCHANGED mapperVars
    /\ UNCHANGED <<mathVars, mainVars>>

Tick ==
    /\ now < MaxTime
    /\ pc # "stopped"
    /\ now' = now + 1
    /\ UNCHANGED <<queue, fed, enqueued, dequeued, acked, pc, event, cur,
                   todo, k_price_cents, orders, bankroll, opportunities, logs>>
    /\ UNCHANGED mapperVars
    /\ UNCHANGED <<mathVars, mainVars>>

----------------------------------------------------------------------------
(* math_engine.py, and the math helpers called on their own *)

Abs(n) == IF n < 0 THEN -n ELSE n

american_to_implied_prob(odds) ==
    IF odds > 0
    THEN [num |-> 100, den |-> odds + 100]
    ELSE [num |-> Abs(odds), den |-> Abs(odds) + 100]

Zero == [num |-> 0, den |-> 1]

\* p_a / total and p_b / total with total = p_a + p_b, over one denominator
devig_two_way(odds_a, odds_b) ==
    LET p_a == american_to_implied_prob(odds_a)
        p_b == american_to_implied_prob(odds_b)
        a == p_a.num * p_b.den
        b == p_b.num * p_a.den
    IN  IF a + b = 0
        THEN <<Zero, Zero>>
        ELSE <<[num |-> a, den |-> a + b], [num |-> b, den |-> a + b]>>

\* a result slot before the call
NotCalled == [num |-> 0, den |-> 0]

OddsValues == {-150, -100, 0, 100, 130}
\* the odds the payloads of the model quote
OddsRange == -150..130

MathCall(odds_a, odds_b) ==
    [odds_a |-> odds_a, odds_b |-> odds_b, true_prob |-> NotCalled,
     p_a |-> NotCalled, fair |-> <<NotCalled, NotCalled>>]

NoMath == MathCall(0, 0)

\* main.implied_prob(odds_a) returns
CallImpliedProb ==
    /\ math.true_prob = NotCalled
    /\ math' = [math EXCEPT !.true_prob = implied_prob(math.odds_a)]
    /\ UNCHANGED <<mapperVars, pipeVars, mainVars>>

\* math_engine.american_to_implied_prob(odds_a) returns
CallAmericanToImpliedProb ==
    /\ math.p_a = NotCalled
    /\ math' = [math EXCEPT !.p_a = american_to_implied_prob(math.odds_a)]
    /\ UNCHANGED <<mapperVars, pipeVars, mainVars>>

\* math_engine.devig_two_way(odds_a, odds_b) returns
CallDevigTwoWay ==
    /\ math.fair = <<NotCalled, NotCalled>>
    /\ math' = [math EXCEPT !.fair = devig_two_way(math.odds_a, math.odds_b)]
    /\ UNCHANGED <<mapperVars, pipeVars, mainVars>>

----------------------------------------------------------------------------
(* main: the four tasks, gather, and the cleanup *)

TaskNames ==
    {"odds_ws_feed", "process_odds_feed", "dashboard_loop",
     "process_kalshi_feed"}

\* asyncio.create_task for each of them
TasksCreated == [t \in TaskNames |-> "running"]

\* a task that is done: it raised, returned, or was cancelled
Done == {"failed", "returned", "cancelled"}

\* the tasks whose code can return: odds_ws_feed on a 401 handshake,
\* process_kalshi_feed when the stream ends; the other two loop forever
Returning == {"odds_ws_feed", "process_kalshi_feed"}

\* main: where it is, the exception it carries, and whether a cancel of
\* main has been requested and not yet delivered
Main(at, exc, req) == [at |-> at, exc |-> exc, req |-> req]

\* main awaits asyncio.gather(*tasks)
MainStart == Main("gather", "none", FALSE)

\* Task.cancel() on each task: a request, without effect on a done task
CancelAll(ts) ==
    [t \in TaskNames |-> IF ts[t] = "running" THEN "cancelling" ELSE ts[t]]

\* a task raises an exception
TaskFails(t) ==
    /\ mainpc.at # "exited"
    /\ tasks[t] \in {"running", "cancelling"}
    /\ tasks' = [tasks EXCEPT ![t] = "failed"]
    /\ UNCHANGED <<mainpc, mapperVars, pipeVars, mathVars>>

\* a task returns
TaskReturns(t) ==
    /\ mainpc.at # "exited"
    /\ t \in Returning
    /\ tasks[t] = "running"
    /\ tasks' = [tasks EXCEPT ![t] = "returned"]
    /\ UNCHANGED <<mainpc, mapperVars, pipeVars, mathVars>>

\* CancelledError is raised in a task at its await and ends it
TaskCancelled(t) ==
    /\ mainpc.at # "exited"
    /\ tasks[t] = "cancelling"
    /\ tasks' = [tasks EXCEPT ![t] = "cancelled"]
    /\ UNCHANGED <<mainpc, mapperVars, pipeVars, mathVars>>

\* main is cancelled while it awaits a gather: the gather passes the
\* cancel on to its tasks and raises once they let it
CancelMain ==
    /\ mainpc.at \in {"gather", "cleanup"}
    /\ ~mainpc.req
    /\ mainpc' = [mainpc EXCEPT !.req = TRUE]
    /\ tasks' = CancelAll(tasks)
    /\ UNCHANGED <<mapperVars, pipeVars, mathVars>>

\* gather(*tasks) raises the exception of a task, or CancelledError for
\* a cancelled one; the finally block cancels every task and awaits them
GatherRaises ==
    /\ mainpc.at = "gather"
    /\ \E t \in TaskNames :
          /\ tasks[t] \in {"failed", "cancelled"}
          /\ mainpc' = Main("cleanup",
                            IF tasks[t] = "failed" THEN "error"
                            ELSE "cancelled",
                            FALSE)
    /\ tasks' = CancelAll(tasks)
    /\ UNCHANGED <<mapperVars, pipeVars, mathVars>>

\* gather(*tasks, return_exceptions=True) ends when every task is done
GatherAll(ts) == \A t \in TaskNames : ts[t] \in Done

\* what the await of the cleanup raises: CancelledError when main was
\* cancelled meanwhile; the exceptions of the tasks are results
CleanupRaises(req) == IF req THEN "cleanup_cancelled" ELSE "none"

\* a with-block that lets CancelledError through
SuppressNothing(err) == err

\* contextlib.suppress(asyncio.CancelledError)
Suppress(err) == "none"

\* the cleanup ends; main leaves with the exception of the try block, or
\* with one raised in the finally block
MainExits ==
    /\ mainpc.at = "cleanup"
    /\ GatherAll(tasks)
    /\ LET err == Suppress(CleanupRaises(mainpc.req))
       IN  mainpc' = [mainpc EXCEPT !.at = "exited",
                                    !.exc = IF err = "none" THEN @ ELSE err]
    /\ UNCHANGED <<tasks, mapperVars, pipeVars, mathVars>>

----------------------------------------------------------------------------
(* The program: main has loaded the mapper once, the tasks run *)

PipeStart ==
    /\ queue = <<>>
    /\ fed = 0
    /\ enqueued = <<>>
    /\ dequeued = <<>>
    /\ acked = 0
    /\ pc = "get"
    /\ event = NoPayload
    /\ cur = Idle
    /\ todo = <<>>
    /\ k_price_cents = Unbound
    /\ orders = <<>>
    /\ bankroll = BANKROLL
    /\ opportunities = <<>>
    /\ now = 0

\* the catalogs main starts the sniper loop on
StartCatalogs == {catalog \in Catalogs : Len(catalog) <= 1}

Init ==
    /\ \E catalog \in StartCatalogs :
          /\ entries = BuildEntries(catalog)
          /\ team_index = BuildIndex(BuildEntries(catalog))
    /\ lock = [holder |-> 0, waiters |-> <<>>]
    /\ loadpc = [t \in LoadCalls |-> IF t = 1 THEN "done" ELSE "idle"]
    /\ fetches = 1
    /\ lookups = <<>>
    /\ PipeStart
    /\ logs = <<"LOADING", "LOADED">>
    /\ math = NoMath
    /\ tasks = TasksCreated
    /\ mainpc = MainStart

Next ==
    \/ \E payload \in Events : FeedMessage(payload)
    \/ Dequeue
    \/ \E q \in get_kalshi_ask : AskResult(q)
    \/ \E i \in 1..Len(orders), outcome \in Outcomes : OrderResult(i, outcome)
    \/ Shutdown
    \/ Tick

Spec == Init /\ [][Next]_vars

----------------------------------------------------------------------------
(* A MarketMapper on its own: preload called several times, lookups beside *)

LoadInit ==
    /\ entries = <<>>
    /\ team_index = <<>>
    /\ lock = [holder |-> 0, waiters |-> <<>>]
    /\ loadpc = [t \in LoadCalls |-> "idle"]
    /\ fetches = 0
    /\ lookups = <<>>
    /\ PipeStart
    /\ logs = <<>>
    /\ math = NoMath
    /\ tasks = TasksCreated
    /\ mainpc = MainStart

LoadNext ==
    \/ \E t \in LoadCalls : CallPreload(t)
    \/ \E t \in LoadCalls : AcquireLock(t)
    \/ \E t \in LoadCalls, catalog \in Catalogs : FetchOk(t, catalog)
    \/ \E t \in LoadCalls : FetchFail(t)
    \/ \E name \in Names : Lookup(name)

LoadSpec == LoadInit /\ [][LoadNext]_vars

----------------------------------------------------------------------------
(* The math helpers on their own, on every pair of odds of OddsValues *)

MathInit ==
    /\ entries = <<>>
    /\ team_index = <<>>
    /\ lock = [holder |-> 0, waiters |-> <<>>]
    /\ loadpc = [t \in LoadCalls |-> "idle"]
    /\ fetches = 0
    /\ lookups = <<>>
    /\ PipeStart
    /\ logs = <<>>
    /\ \E odds_a \in OddsValues, odds_b \in OddsValues :
          math = MathCall(odds_a, odds_b)
    /\ tasks = TasksCreated
    /\ mainpc = MainStart

MathNext ==
    \/ CallImpliedProb
    \/ CallAmericanToImpliedProb
    \/ CallDevigTwoWay

MathSpec == MathInit /\ [][MathNext]_vars

----------------------------------------------------------------------------
(* main on its own: the tasks end in any order, main may be cancelled *)

MainInit ==
    /\ entries = <<>>
    /\ team_index = <<>>
    /\ lock = [holder |-> 0, waiters |-> <<>>]
    /\ loadpc = [t \in LoadCalls |-> "idle"]
    /\ fetches = 0
    /\ lookups = <<>>
    /\ PipeStart
    /\ logs = <<>>
    /\ math = NoMath
    /\ tasks = TasksCreated
    /\ mainpc = MainStart

MainNext ==
    \/ \E t \in TaskNames : TaskFails(t)
    \/ \E t \in TaskNames : TaskReturns(t)
    \/ \E t \in TaskNames : TaskCancelled(t)
    \/ CancelMain
    \/ GatherRaises
    \/ MainExits

MainSpec == MainInit /\ [][MainNext]_vars

----------------------------------------------------------------------------
(* The gate on its own: one event of a sharp book quoting the home team   *)
(* at any of GateOdds, and the exchange returning any price up to MaxPrice *)

GateOdds ==
    {-10000, -1000, -400, -150, -110, -100, 0, 100, 110, 150, 400, 10000}

GateEvents ==
    { Payload(KC, "pinnacle",
          <<Book("pinnacle", <<H2H(<<Out(KC, o), Out(LVR, -o)>>)>>)>>) :
        o \in GateOdds }

GatePrices == {None} \cup {Ask(c) : c \in (-MaxPrice)..MaxPrice}

GateNext ==
    \/ \E payload \in GateEvents : fed = 0 /\ FeedMessage(payload)
    \/ Dequeue
    \/ \E q \in GatePrices : AskResult(q)
    \/ \E i \in 1..Len(orders), outcome \in Outcomes : OrderResult(i, outcome)

GateSpec == Init /\ [][GateNext]_vars

----------------------------------------------------------------------------
(* Properties *)

Inflight(i) == orders[i].status = "inflight"

\* the events of orders i and j were taken from the queue one after the other
Consecutive(a, b) ==
    \E k \in 1..(Len(dequeued) - 1) : dequeued[k] = a /\ dequeued[k + 1] = b

\* the result of order i arrives in this step
ResultArrives(i, kinds) ==
    /\ i <= Len(orders)
    /\ Inflight(i)
    /\ Len(orders') = Len(orders)
    /\ orders'[i].status \in kinds

\* the gate of the specification on a known price, in whole numbers:
\* implied probability minus cents/100 is at least MIN_EDGE/100 and
\* MAX_RISK_PER_TRADE buys at least one contract
ShouldFire(sb_odds, cents) ==
    /\ cents > 0
    /\ cents <= MAX_RISK_PER_TRADE
    /\ IF sb_odds < 0
       THEN 100 * (-sb_odds) >= (cents + MIN_EDGE) * (100 - sb_odds)
       ELSE 100 * 100 >= (cents + MIN_EDGE) * (100 + sb_odds)

\* C1: two consecutive events that produce the same fire decision for the
\* same ticker with no time passing between the two fires (so inside any
\* cooldown window) lead to one order submission, not two.
C1_DuplicateSuppressed ==
    \A i, j \in 1..Len(orders) :
        ~ /\ Consecutive(orders[i].ev, orders[j].ev)
          /\ orders[i].ticker = orders[j].ticker
          /\ orders[i].side = orders[j].side
          /\ orders[i].count = orders[j].count
          /\ orders[i].price = orders[j].price
          /\ orders[j].time = orders[i].time

\* C2: the bankroll is never negative, and the notional stake of every
\* order (count * price, in cents) is at most the bankroll at fire time.
C2_LedgerSafe ==
    /\ bankroll >= 0
    /\ \A i \in 1..Len(orders) :
          orders[i].count * orders[i].price <= orders[i].pre

C2_Witness ==
    /\ Len(orders) >= 2
    /\ \E i \in 1..Len(orders) : orders[i].status \in Failures
    /\ \E i \in 1..Len(orders) : orders[i].status = "success"

\* C3: when the result of a failed order arrives and no other fire came
\* after that order, the bankroll after the step is the bankroll from
\* immediately before the fire.
C3_FailureRestores ==
    [][\A i \in 1..Len(orders) :
          (ResultArrives(i, Failures) /\ i = Len(orders))
              => bankroll' = orders[i].pre]_vars

C3_Witness ==
    /\ orders # <<>>
    /\ orders[Len(orders)].status \in Failures
    /\ bankroll = orders[Len(orders)].pre

MinSimilarity == 80

BestScore(name, index) == WRatio(name, match_team(name, index))

\* C5: an event is mapped to a contract only when the best fuzzy match of
\* its home team scores at least the minimum similarity.
C5_ResolvesConfidently ==
    cur # Idle => BestScore(cur.home_team, team_index) >= MinSimilarity

\* C6: a price lookup that returns none adds no order and no Signal.
C6_NoFireOnUnknownPrice ==
    [][\A q \in get_kalshi_ask :
          (~q.known /\ AskResult(q)) =>
              /\ orders' = orders
              /\ opportunities' = opportunities]_vars

\* the lookup came back with none and the event was acknowledged unfired
C6_Witness ==
    /\ k_price_cents = None
    /\ pc = "get"
    /\ acked >= 1
    /\ orders = <<>>
    /\ opportunities = <<>>

\* C7: while an order is in flight the loop is never held up: with an
\* event queued it can take it, and awaiting a price it can go on.
C7_NonBlockingFire ==
    (\E i \in 1..Len(orders) : Inflight(i)) =>
        /\ (pc = "get" /\ queue # <<>>) => ENABLED Dequeue
        /\ pc = "ask" => \E q \in get_kalshi_ask : ENABLED AskResult(q)

\* the loop works on a later event than that of an order still in flight
C7_Witness ==
    \E i \in 1..Len(orders) : Inflight(i) /\ cur.id > orders[i].ev

IsPrefix(a, b) == Len(a) <= Len(b) /\ SubSeq(b, 1, Len(a)) = a

\* C8: the events are taken in the order the feed queued them, one at a
\* time: the one taken last is acknowledged before the next is taken.
C8_Fifo ==
    /\ IsPrefix(dequeued, enqueued)
    /\ Len(dequeued) - acked \in {0, 1}
    /\ pc = "get" => acked = Len(dequeued)

C8_Witness ==
    /\ Len(dequeued) >= 2
    /\ acked >= 2

\* C9: the step in which an order fails writes the failure to the log and
\* leaves the sniper loop where it was.
C9_FailureReported ==
    [][\A i \in 1..Len(orders) :
          ResultArrives(i, Failures) =>
              /\ pc' = pc
              /\ cur' = cur
              /\ todo' = todo
              /\ queue' = queue
              /\ logs' # <<>>
              /\ logs'[Len(logs')] \in {"FIRE FAIL", "NET ERROR"}]_vars

\* a failure was logged and the loop fired again after it
C9_Witness ==
    \E i, j \in 1..Len(logs) :
        /\ i < j
        /\ logs[i] \in {"FIRE FAIL", "NET ERROR"}
        /\ logs[j] = "SIGNAL"
        /\ pc \in {"get", "ask"}

\* C10: once a load has completed, no later step fetches the catalog or
\* changes the entries or the name index.
C10_LoadOnce ==
    [][(\E t \in LoadCalls : loadpc[t] = "done") =>
          /\ fetches' = fetches
          /\ entries' = entries
          /\ team_index' = team_index]_vars

\* C11: every entry of the mapper has at least one team; a market whose
\* title yields no team name is not among the entries.
C11_TeamsNonEmpty ==
    \A i \in 1..Len(entries) : entries[i].teams # <<>>

RECURSIVE GCD(_, _)
GCD(a, b) == IF b = 0 THEN a ELSE GCD(b, a % b)

\* a fraction in lowest terms
Lowest(p) ==
    LET g == GCD(Abs(p.num), p.den)
    IN  [num |-> p.num \div g, den |-> p.den \div g]

\* two fractions are the same number
SameProb(p, q) == Lowest(p) = Lowest(q)

\* C12: no probability is returned for odds of 0, and for every odds value
\* implied_prob and american_to_implied_prob return the same probability.
C12_ZeroOddsRejected ==
    /\ math.odds_a = 0 =>
          /\ math.true_prob = NotCalled
          /\ math.p_a = NotCalled
    /\ (math.true_prob # NotCalled /\ math.p_a # NotCalled) =>
          SameProb(math.true_prob, math.p_a)

\* the odds of the other outcome wherever a target book quotes the home
\* side at sb_odds in a two-way h2h market of the payload
OtherSides(payload, home, sb_odds) ==
    { other \in OddsRange :
        \E b \in DOMAIN payload.bookmakers :
            /\ payload.bookmakers[b].key \in TARGET_BOOKS
            /\ \E m \in DOMAIN payload.bookmakers[b].markets :
                  LET outs == payload.bookmakers[b].markets[m].outcomes
                  IN  \E i, j \in DOMAIN outs :
                          /\ i # j
                          /\ outs[i].name = home
                          /\ outs[i].price = sb_odds
                          /\ outs[j].price = other }

\* C13: the edge of every fire is the devigged probability of the matched
\* outcome minus the price: the Signal appended carries that edge.
C13_EdgeIsDevigged ==
    [][\A q \in get_kalshi_ask :
          (AskResult(q) /\ Len(opportunities') > Len(opportunities)) =>
              \A other \in OtherSides(event, cur.home_team, Head(todo).odds) :
                  SameProb(opportunities'[Len(opportunities')].edge,
                           Edge(devig_two_way(Head(todo).odds, other)[1],
                                q.cents))]_vars

\* an order and its Signal are added in this step
FireStep ==
    /\ Len(orders') = Len(orders) + 1
    /\ Len(opportunities') = Len(opportunities) + 1

\* C14: a fire takes the notional stake of its order (count * price, in
\* cents) off the bankroll in the same step.
C14_FireDebitsStake ==
    [][FireStep =>
          bankroll' = bankroll - orders'[Len(orders')].count
                                   * orders'[Len(orders')].price]_vars

\* C15: the sniper loop is never ended by an event: after any payload it
\* is at queue.get or at a price lookup.
C15_MalformedSkipped ==
    pc \in {"get", "ask"}

\* C16: only the sniper loop writes the ledger: the bankroll, the Signals
\* and the logs change in no step but one of the loop.
C16_SingleWriter ==
    [][(bankroll' # bankroll \/ opportunities' # opportunities
            \/ logs' # logs)
          => \E q \in get_kalshi_ask : AskResult(q)]_vars

\* C17: the list of Signals is never longer than the window, however many
\* fires there have been.
C17_SignalsBounded ==
    Len(opportunities) <= SignalWindow

\* C18: when main has returned, each of its four tasks is done, none still
\* running or with a cancel pending, and main leaves with the exception
\* of its try block, not with one raised by the cleanup.
C18_CleanShutdown ==
    mainpc.at = "exited" =>
        /\ \A t \in TaskNames : tasks[t] \in Done
        /\ mainpc.exc \in {"error", "cancelled"}

\* main left after a task failed, others were cancelled by the cleanup,
\* and main itself was cancelled while it waited for them
C18_Witness ==
    /\ mainpc.at = "exited"
    /\ mainpc.req
    /\ mainpc.exc = "error"
    /\ \E t \in TaskNames : tasks[t] = "cancelled"

\* C19: at every point where a lookup can run, each name of the name list
\* is a team of some entry, and every lookup that matched a name found
\* the contract that owns it.
C19_NoHalfBuiltIndex ==
    /\ \A i \in 1..Len(team_index) :
          \E e \in 1..Len(entries) : InTeams(team_index[i], entries[e].teams)
    /\ \A k \in 1..Len(lookups) :
          lookups[k].match # NoName => lookups[k].ticker # ""

\* a lookup made after a reload found a name and its contract
C19_Witness ==
    /\ fetches >= 2
    /\ team_index # <<>>
    /\ \E k \in 1..Len(lookups) :
          lookups[k].match # NoName /\ lookups[k].ticker # ""

\* a bookmaker of TARGET_BOOKS quotes this team at these odds in the payload
QuotedByTarget(payload, home, sb_odds) ==
    \E b \in DOMAIN payload.bookmakers :
        /\ payload.bookmakers[b].key \in TARGET_BOOKS
        /\ \E m \in DOMAIN payload.bookmakers[b].markets :
              LET outs == payload.bookmakers[b].markets[m].outcomes
              IN  \E o \in DOMAIN outs :
                      outs[o].name = home /\ outs[o].price = sb_odds

\* C20: every fire is decided on an outcome that a bookmaker of the
\* allow-list quotes in the event at hand; an event with no such bookmaker
\* adds no order and no Signal.
C20_SharpBooksOnly ==
    [][(Len(orders') # Len(orders) \/ opportunities' # opportunities) =>
          /\ FireStep
          /\ orders'[Len(orders')].ev = cur.id
          /\ QuotedByTarget(event, cur.home_team, Head(todo).odds)]_vars

\* an event quoted only by a book outside the list was taken and
\* acknowledged without an order
C20_Witness ==
    /\ event = EvSoft
    /\ entries # <<>>
    /\ pc = "get"
    /\ acked = Len(dequeued)
    /\ orders = <<>>
    /\ opportunities = <<>>

\* C21: no two orders come from the same dequeued event.
C21_OneOrderPerEvent ==
    \A i, j \in 1..Len(orders) : orders[i].ev = orders[j].ev => i = j

\* C22: every way of the loop back to queue.get acknowledges the event it
\* took, once: task_done is counted only there, one at a time, and then
\* as many events are acknowledged as were taken.
C22_AckedOnce ==
    [][/\ (pc' = "get" /\ (Len(dequeued') > Len(dequeued) \/ pc = "ask"))
            => acked' = acked + 1
       /\ acked' # acked =>
            /\ acked' = acked + 1
            /\ pc' = "get"
            /\ acked' = Len(dequeued')]_vars

\* two events are acknowledged: one that fired, and after it one that no
\* target book quotes
C22_Witness ==
    /\ acked = 2
    /\ Len(dequeued) = 2
    /\ Len(orders) = 1
    /\ event = EvSoft
    /\ pc = "get"

\* C23: every order is for the yes side, for at least one contract, at a
\* price from 1 to 99 cents, and costs at most MAX_RISK_PER_TRADE.
C23_OrderWithinLimits ==
    \A i \in 1..Len(orders) :
        /\ orders[i].side = "yes"
        /\ orders[i].count >= 1
        /\ orders[i].price \in 1..99
        /\ orders[i].count * orders[i].price <= MAX_RISK_PER_TRADE

\* an order at the highest price that can clear the gate was dispatched
C23_Witness ==
    \E i \in 1..Len(orders) :
        /\ orders[i].price = 98
        /\ orders[i].count = 2

====
